---------------------------- MODULE Spec2Model ----------------------------
(***************************************************************************)
(* A model of syntelos/go-cbor (src/cbor.go): the Object buffer            *)
(* (Concatenate, Define, Refine), the framing engine (Read, Write), the    *)
(* encoder (Encode) and the decoder (Decode).                              *)
(*                                                                         *)
(* Octets are the integers 0..255 and an Object is a sequence of octets.   *)
(* A 64-bit quantity (a size handed to Refine, the value of an integer) is *)
(* kept as its big-endian octets, so that no value leaves the range of     *)
(* the model checker's integers and every width keeps its own wrap-around. *)
(***************************************************************************)
EXTENDS Integers, Sequences, FiniteSets, TLC

(***************************************************************************)
(* Bounds of the model.                                                    *)
(***************************************************************************)
\* longest octet sequence enumerated over the alphabet of the source
MaxLen == 3

(***************************************************************************)
(* Octet codec (github.com/syntelos/go-endian as used by cbor.go).         *)
(***************************************************************************)
Octet == 0..255

Min(a, b) == IF a <= b THEN a ELSE b

\* the 8 big-endian octets of a small natural number n (n < 2^31)
U64(n) ==
    << 0, 0, 0, 0,
       (n \div 16777216) % 256, (n \div 65536) % 256, (n \div 256) % 256, n % 256 >>

\* unsigned comparison a <= b of two big-endian octet strings of one length
RECURSIVE LeqOctets(_, _)
LeqOctets(a, b) ==
    IF Len(a) = 0 THEN TRUE
    ELSE IF a[1] < b[1] THEN TRUE
    ELSE IF a[1] > b[1] THEN FALSE
    ELSE LeqOctets(Tail(a), Tail(b))

\* endian.BigEndian.EncodeUint16/32/64: the low w octets of a 64-bit value
EncodeUint(v, w) == SubSeq(v, 9 - w, 8)

\* A count too large for any source of the model: a length or count decoded
\* from 4 or 8 octets saturates here (a read of that many octets, or that
\* many child reads, cannot succeed on a source this short).
Saturated == 1048576

\* endian.BigEndian.DecodeUint16/32/64 of exactly w octets, as a count
RECURSIVE DecodeUintFrom(_, _)
DecodeUintFrom(acc, d) ==
    IF Len(d) = 0 THEN acc
    ELSE DecodeUintFrom(Min(Saturated, acc * 256 + d[1]), Tail(d))

DecodeUint(d) == DecodeUintFrom(0, d)

(***************************************************************************)
(* Errors.  fmt.Errorf(ErrorWrapRead, e) wraps e; an error is its base and *)
(* the number of wrappers around it.                                       *)
(***************************************************************************)
Err(base) == [base |-> base, wraps |-> 0]

NoError == Err("nil")
Break == Err("CBOR Break")
ErrorUnrecognizedTag == Err("Unrecognized CBOR Tag")
ErrorMissingData == Err("Missing CBOR Data")
\* fmt.Errorf("Read (%d) expected (1).",n)
ErrorMissingTag == Err("Read expected (1)")
\* fmt.Errorf("Data expected (..) found (%d).",n)
ErrorShortHeader == Err("Data expected")
\* io.EOF, the error of the source itself
EOF == Err("EOF")
\* not an error value: the run-time panic of make([]byte,z) with a z that
\* is no length ("makeslice: len out of range"); the call does not return,
\* and neither does any call of Read or of Decode that it is nested in
PanicMakeslice == Err("makeslice: len out of range")

Panics(e) == e.base = PanicMakeslice.base

ErrorWrapRead(e) == [e EXCEPT !.wraps = @ + 1]

(***************************************************************************)
(* The source: an io.Reader over octets held in memory.  "buffer" is       *)
(* bytes.Buffer (the reader Decode itself builds): at its end a read of    *)
(* one or more octets answers (0, io.EOF).  "quiet" is a reader that at    *)
(* its end answers (0, nil), which Read provides for with its tests of n.  *)
(***************************************************************************)
ReaderKinds == {"buffer", "quiet"}

NewBuffer(octets) == [buf |-> octets, kind |-> "buffer"]

\* a source that drops one octet more than it delivers (faulty variant)
ReaderReadAhead(r, k) ==
    IF Len(r.buf) = 0
    THEN IF k = 0 \/ r.kind = "quiet"
         THEN [n |-> 0, e |-> NoError, d |-> << >>, r |-> r]
         ELSE [n |-> 0, e |-> EOF, d |-> << >>, r |-> r]
    ELSE LET n == Min(k, Len(r.buf))
         IN  [n |-> n, e |-> NoError, d |-> SubSeq(r.buf, 1, n),
              r |-> [r EXCEPT !.buf = SubSeq(r.buf, n + 2, Len(r.buf))]]

\* r.Read(make([]byte,k)): n octets read, the error, the octets, the reader after
ReaderRead(r, k) ==
    IF Len(r.buf) = 0
    THEN IF k = 0 \/ r.kind = "quiet"
         THEN [n |-> 0, e |-> NoError, d |-> << >>, r |-> r]
         ELSE [n |-> 0, e |-> EOF, d |-> << >>, r |-> r]
    ELSE LET n == Min(k, Len(r.buf))
         IN  [n |-> n, e |-> NoError, d |-> SubSeq(r.buf, 1, n),
              r |-> [r EXCEPT !.buf = SubSeq(r.buf, n + 1, Len(r.buf))]]

(***************************************************************************)
(* Object buffer.                                                          *)
(***************************************************************************)
HasTag(this) == 0 < Len(this)

Tag(this) == IF HasTag(this) THEN this[1] ELSE 0

Major(this) == IF HasTag(this) THEN (Tag(this) \div 32) % 8 ELSE 0

MajorUint == 0
MajorSint == 1
MajorBlob == 2
MajorText == 3
MajorArray == 4
MajorMap == 5
MajorTagged == 6
MajorSimple == 7

\* copier and Concatenate: when the receiver is empty the result is b, when b
\* is empty the result is b as well, otherwise a fresh buffer of both
Concatenate(this, b) ==
    IF Len(this) = 0 THEN b
    ELSE IF Len(b) = 0 THEN b
    ELSE this \o b

Define(m) == << (m % 8) * 32 >>

\* a Refine whose first threshold is 0x17 > size (faulty variant)
RefineTagExclusive(base, size) ==
    IF LeqOctets(size, U64(22)) THEN base + size[8]
    ELSE IF LeqOctets(size, U64(255)) THEN base + 24
    ELSE IF LeqOctets(size, U64(65535)) THEN base + 25
    ELSE IF LeqOctets(size, << 0, 0, 0, 0, 255, 255, 255, 255 >>) THEN base + 26
    ELSE base + 27

\* the leading octet Refine chooses for a major type whose base tag is base
RefineTag(base, size) ==
    IF LeqOctets(size, U64(23)) THEN base + size[8]
    ELSE IF LeqOctets(size, U64(255)) THEN base + 24
    ELSE IF LeqOctets(size, U64(65535)) THEN base + 25
    ELSE IF LeqOctets(size, << 0, 0, 0, 0, 255, 255, 255, 255 >>) THEN base + 26
    ELSE base + 27

Refine(this, size) ==
    IF Major(this) \in MajorUint..MajorMap
    THEN [this EXCEPT ![1] = RefineTag(32 * Major(this), size)]
    ELSE this


(***************************************************************************)
(* Framing engine: Object.Read.  A result is the Object returned (obj,     *)
(* with isNil when the code returns nil), the error, and the reader after  *)
(* the call.                                                               *)
(***************************************************************************)
Return(this, r) == [obj |-> this, isNil |-> FALSE, err |-> NoError, r |-> r]

Fail(e, r) == [obj |-> << >>, isNil |-> TRUE, err |-> e, r |-> r]

\* this = tag; d = make([]byte,w); n, e = r.Read(d); ...; this.Concatenate(d)
ReadOctets(this, w, r) ==
    LET x == ReaderRead(r, w)
    IN  IF x.e # NoError THEN Fail(ErrorWrapRead(x.e), x.r)
        ELSE IF x.n # w THEN Fail(ErrorMissingData, x.r)
        ELSE Return(Concatenate(this, x.d), x.r)

\* var z uint64 = endian.BigEndian.DecodeUint64(d); make([]byte,z): from
\* 2^63 on z is negative as an int, and make panics (the lengths of 1, 2
\* and 4 octets are of type int or uint32 and always in range)
OutOfRange(d) == Len(d) = 8 /\ d[1] >= 128

\* The w length octets d and then the z payload octets p they announce:
\* failed with the result to return, or the buffer so far, d, p and the reader.
ReadLengthAndPayload(this, w, r) ==
    LET x == ReaderRead(r, w)
    IN  IF x.e # NoError
        THEN [failed |-> TRUE, result |-> Fail(ErrorWrapRead(x.e), x.r)]
        ELSE IF x.n # w
        THEN [failed |-> TRUE, result |-> Fail(ErrorMissingData, x.r)]
        ELSE IF OutOfRange(x.d)
        THEN [failed |-> TRUE, result |-> Fail(PanicMakeslice, x.r)]
        ELSE LET z == DecodeUint(x.d)
                 y == ReaderRead(x.r, z)
             IN  IF y.e # NoError
                 THEN [failed |-> TRUE, result |-> Fail(ErrorWrapRead(y.e), y.r)]
                 ELSE IF y.n # z
                 THEN [failed |-> TRUE, result |-> Fail(ErrorMissingData, y.r)]
                 ELSE [failed |-> FALSE, this |-> Concatenate(this, x.d),
                       d |-> x.d, p |-> y.d, r |-> y.r]

\* cases 0x38..0x3B, 0x58..0x5B, 0x78, 0x79: this = this.Concatenate(p)
ReadCounted(this, w, r) ==
    LET x == ReadLengthAndPayload(this, w, r)
    IN  IF x.failed THEN x.result ELSE Return(Concatenate(x.this, x.p), x.r)

\* cases 0x7A, 0x7B: after the payload is read, this = this.Concatenate(d)
ReadCountedText(this, w, r) ==
    LET x == ReadLengthAndPayload(this, w, r)
    IN  IF x.failed THEN x.result ELSE Return(Concatenate(x.this, x.d), x.r)

\* the w count octets of an array or map header
ReadCount(this, w, r) ==
    LET x == ReaderRead(r, w)
    IN  IF x.e # NoError
        THEN [failed |-> TRUE, result |-> Fail(ErrorWrapRead(x.e), x.r)]
        ELSE IF x.n # w
        THEN [failed |-> TRUE, result |-> Fail(ErrorMissingData, x.r)]
        ELSE [failed |-> FALSE, this |-> Concatenate(this, x.d),
              z |-> DecodeUint(x.d), r |-> x.r]

\* the w tag-number octets of cases 0xD8..0xDB
ReadTagNumber(this, w, r) ==
    LET x == ReaderRead(r, w)
    IN  IF x.e # NoError
        THEN [failed |-> TRUE, result |-> Fail(ErrorWrapRead(x.e), x.r)]
        ELSE IF x.n # w
        THEN [failed |-> TRUE, result |-> Fail(ErrorShortHeader, x.r)]
        ELSE [failed |-> FALSE, this |-> Concatenate(this, x.d), r |-> x.r]

\* the number of octets that follow a tag with additional information 24..27
Width(t) == CASE t % 32 = 24 -> 1 [] t % 32 = 25 -> 2 [] t % 32 = 26 -> 4 [] t % 32 = 27 -> 8

RECURSIVE Read(_)
RECURSIVE ReadItems(_, _, _)
RECURSIVE ReadPairs(_, _, _)
RECURSIVE ReadUntilBreak(_, _)
RECURSIVE ReadPairsUntilBreak(_, _)

\* a loop over the items of an array that a Break ends (faulty variant)
ReadItemsBreakEnds(this, m, r) ==
    IF m = 0 THEN Return(this, r)
    ELSE LET a == Read(r)
         IN  IF a.err = NoError
             THEN ReadItems(Concatenate(this, a.obj), m - 1, a.r)
             ELSE IF a.err = Break THEN Return(this, a.r)
             ELSE Fail(ErrorWrapRead(a.err), a.r)

\* for n = 0; n < m; n++ { a, e = a.Read(r); ... }   (arrays of m items)
ReadItems(this, m, r) ==
    IF m = 0 THEN Return(this, r)
    ELSE LET a == Read(r)
         IN  IF a.err = NoError
             THEN ReadItems(Concatenate(this, a.obj), m - 1, a.r)
             ELSE Fail(ErrorWrapRead(a.err), a.r)

\* a loop over the pairs of a map that reads one item for each pair
\* (faulty variant)
ReadPairsByHalves(this, m, r) == ReadItems(this, m, r)

\* for ; m < n; m++ { a.Read(r); b.Read(r) }   (maps of m pairs)
ReadPairs(this, m, r) ==
    IF m = 0 THEN Return(this, r)
    ELSE LET a == Read(r)
         IN  IF a.err # NoError THEN Fail(ErrorWrapRead(a.err), a.r)
             ELSE LET b == Read(a.r)
                  IN  IF b.err # NoError THEN Fail(ErrorWrapRead(b.err), b.r)
                      ELSE ReadPairs(Concatenate(Concatenate(this, a.obj), b.obj),
                                     m - 1, b.r)

\* the loop of an indefinite-length container that a Break wrapped by a
\* child ends as well (faulty variant)
ReadUntilAnyBreak(this, r) ==
    LET a == Read(r)
    IN  IF a.err = NoError THEN ReadUntilBreak(Concatenate(this, a.obj), a.r)
        ELSE IF a.err.base = Break.base THEN Return(this, a.r)
        ELSE Fail(ErrorWrapRead(a.err), a.r)

\* for nil == e { a, e = a.Read(r); ... else if Break == e { break } ... }
ReadUntilBreak(this, r) ==
    LET a == Read(r)
    IN  IF a.err = NoError THEN ReadUntilBreak(Concatenate(this, a.obj), a.r)
        ELSE IF a.err = Break THEN Return(this, a.r)
        ELSE Fail(ErrorWrapRead(a.err), a.r)

\* the loop of an indefinite-length map that returns what it has built when
\* the value of a pair fails (faulty variant)
ReadPairsKeepingPartial(this, r) ==
    LET a == Read(r)
    IN  IF a.err = NoError
        THEN LET b == Read(a.r)
             IN  IF b.err = NoError
                 THEN ReadPairsUntilBreak(
                          Concatenate(Concatenate(this, a.obj), b.obj), b.r)
                 ELSE [obj |-> Concatenate(this, a.obj), isNil |-> FALSE,
                       err |-> ErrorWrapRead(b.err), r |-> b.r]
        ELSE IF a.err = Break THEN Return(this, a.r)
        ELSE Fail(ErrorWrapRead(a.err), a.r)

\* case 0xBF: key, then value; Break ends the loop in key position only
ReadPairsUntilBreak(this, r) ==
    LET a == Read(r)
    IN  IF a.err = NoError
        THEN LET b == Read(a.r)
             IN  IF b.err = NoError
                 THEN ReadPairsUntilBreak(
                          Concatenate(Concatenate(this, a.obj), b.obj), b.r)
                 ELSE Fail(ErrorWrapRead(b.err), b.r)
        ELSE IF a.err = Break THEN Return(this, a.r)
        ELSE Fail(ErrorWrapRead(a.err), a.r)

\* a child read of a tag wrapper that a Break ends with success (faulty
\* variant)
ReadChildBreakEnds(this, r) ==
    LET a == Read(r)
    IN  IF a.err = NoError THEN Return(Concatenate(this, a.obj), a.r)
        ELSE IF a.err = Break THEN Return(this, a.r)
        ELSE Fail(ErrorWrapRead(a.err), a.r)

\* cases 0xC0..0xC5, 0xD5..0xD7 and the tail of 0xD8..0xDB: one child
ReadChild(this, r) ==
    LET a == Read(r)
    IN  IF a.err = NoError THEN Return(Concatenate(this, a.obj), a.r)
        ELSE Fail(ErrorWrapRead(a.err), a.r)

\* a case 0xFF that returns the tag as an item (faulty variant)
ReadBreakAsItem(tag, r) == Return(tag, r)

\* case 0xFF: this = tag; return nil, Break
ReadBreak(tag, r) == Fail(Break, r)

\* a default case that returns the tag as an item (faulty variant)
ReadDefaultAsItem(tag, r) == Return(tag, r)

\* default: return nil, ErrorUnrecognizedTag
ReadDefault(tag, r) == Fail(ErrorUnrecognizedTag, r)

\* the switch of Object.Read on the tag octet t (tag is the one-octet buffer)
ReadSwitch(t, tag, r) ==
    CASE t \in 0..23 -> Return(tag, r)                        \* 0x00..0x17
      [] t \in 24..27 -> ReadOctets(tag, Width(t), r)         \* 0x18..0x1B
      [] t \in 32..55 -> Return(tag, r)                       \* 0x20..0x37
      [] t \in 56..59 -> ReadCounted(tag, Width(t), r)        \* 0x38..0x3B
      [] t \in 64..87 -> ReadOctets(tag, t - 64, r)           \* 0x40..0x57
      [] t \in 88..91 -> ReadCounted(tag, Width(t), r)        \* 0x58..0x5B
      [] t = 95 -> ReadUntilBreak(tag, r)                     \* 0x5F
      [] t \in 96..119 -> ReadOctets(tag, t - 96, r)          \* 0x60..0x77
      [] t \in 120..121 -> ReadCounted(tag, Width(t), r)      \* 0x78, 0x79
      [] t \in 122..123 -> ReadCountedText(tag, Width(t), r)  \* 0x7A, 0x7B
      [] t = 127 -> ReadUntilBreak(tag, r)                    \* 0x7F
      [] t \in 128..151 -> ReadItems(tag, t - 128, r)         \* 0x80..0x97
      [] t \in 152..155 ->                                    \* 0x98..0x9B
            LET c == ReadCount(tag, Width(t), r)
            IN  IF c.failed THEN c.result ELSE ReadItems(c.this, c.z, c.r)
      [] t = 159 -> ReadUntilBreak(tag, r)                    \* 0x9F
      [] t \in 160..183 -> ReadPairs(tag, t - 160, r)         \* 0xA0..0xB7
      [] t \in 184..187 ->                                    \* 0xB8..0xBB
            LET c == ReadCount(tag, Width(t), r)
            IN  IF c.failed THEN c.result ELSE ReadPairs(c.this, c.z, c.r)
      [] t = 191 -> ReadPairsUntilBreak(tag, r)               \* 0xBF
      [] t \in 192..197 -> ReadChild(tag, r)                  \* 0xC0..0xC5
      [] t \in 198..212 -> Return(tag, r)                     \* 0xC6..0xD4
      [] t \in 213..215 -> ReadChild(tag, r)                  \* 0xD5..0xD7
      [] t \in 216..219 ->                                    \* 0xD8..0xDB
            LET c == ReadTagNumber(tag, Width(t), r)
            IN  IF c.failed THEN c.result ELSE ReadChild(c.this, c.r)
      [] t \in 224..247 -> Return(tag, r)                     \* 0xE0..0xF7
      [] t \in 248..251 -> ReadOctets(tag, Width(t), r)       \* 0xF8..0xFB
      [] t = 255 -> ReadBreak(tag, r)                         \* 0xFF
      [] OTHER -> ReadDefault(tag, r)

Read(r) ==
    LET x == ReaderRead(r, 1)
    IN  IF x.e # NoError THEN Fail(x.e, x.r)
        ELSE IF x.n # 1 THEN Fail(ErrorMissingTag, x.r)
        ELSE ReadSwitch(x.d[1], x.d, x.r)

\* what a call of Read hands back to its caller: the result x with the
\* octets "head" in front of its Object, and the receiver as it is then
Returned(head, x, this) ==
    [obj |-> IF x.isNil THEN x.obj ELSE head \o x.obj,
     isNil |-> x.isNil, err |-> x.err, r |-> x.r, this |-> this]

\* a Read that accumulates into the Object it is called on (faulty variant)
ReadOnKeeping(this, r) == Returned(this, Read(r), this)

\* func (this Object) Read(r) seen from its caller, receiver included: the
\* receiver is passed by value and every case of the switch starts with
\* this = tag, so the result is built from the octets of r alone and no
\* statement stores into the receiver's octets; "this" is the receiver as
\* the caller finds it after the call.
ReadOn(this, r) == Returned(<< >>, Read(r), this)


(***************************************************************************)
(* Object.Write: w.Write(this) hands the octets of the Object to the sink. *)
(***************************************************************************)
Write(this, w) == w \o this

(***************************************************************************)
(* The item grammar of the Read dispatch table, written as a length        *)
(* function and independent of Read: ItemLen(B) is the number of octets of *)
(* the one data item at the head of B, Stop when B starts with the break   *)
(* octet 0xFF, Short when B ends before the item does (B is a proper       *)
(* prefix of an item), Bad when no item can start with these octets.       *)
(***************************************************************************)
\* three marks below every length
Bad == 0 - 1
Stop == 0 - 2
Short == 0 - 3

RECURSIVE ItemLen(_)
RECURSIVE ItemsLen(_, _, _)
RECURSIVE StreamLen(_, _, _)

Rest(B, k) == SubSeq(B, k + 1, Len(B))

\* k octets already delimited, n more items to come
ItemsLen(B, k, n) ==
    IF n = 0 THEN k
    ELSE LET c == ItemLen(Rest(B, k))
         IN  IF c = Short THEN Short
             ELSE IF c < 0 THEN Bad
             ELSE ItemsLen(B, k + c, n - 1)

\* k octets already delimited, then groups of per items up to the break
StreamLen(B, k, per) ==
    LET c == ItemLen(Rest(B, k))
    IN  IF c = Stop THEN k + 1
        ELSE IF c < 0 THEN c
        ELSE LET e == ItemsLen(B, k + c, per - 1)
             IN  IF e < 0 THEN e ELSE StreamLen(B, e, per)

\* header of 1 + w octets whose last w octets count the payload octets
CountedLen(B, w) ==
    IF Len(B) < 1 + w THEN Short
    ELSE LET z == DecodeUint(SubSeq(B, 2, 1 + w))
         IN  IF Len(B) < 1 + w + z THEN Short ELSE 1 + w + z

FixedLen(B, k) == IF Len(B) < k THEN Short ELSE k

ItemLen(B) ==
    IF Len(B) = 0 THEN Short
    ELSE LET t == B[1]
             mt == t \div 32
             ai == t % 32
         IN  CASE ai \in 28..30 -> Bad
               [] t = 255 -> Stop
               [] ai = 31 /\ mt \in {2, 3, 4} -> StreamLen(B, 1, 1)
               [] ai = 31 /\ mt = 5 -> StreamLen(B, 1, 2)
               [] ai = 31 -> Bad
               [] mt = 0 /\ ai < 24 -> 1
               [] mt = 0 -> FixedLen(B, 1 + Width(t))
               [] mt = 1 /\ ai < 24 -> 1
               [] mt = 1 -> CountedLen(B, Width(t))
               [] mt \in {2, 3} /\ ai < 24 -> FixedLen(B, 1 + ai)
               [] mt \in {2, 3} -> CountedLen(B, Width(t))
               [] mt = 4 /\ ai < 24 -> ItemsLen(B, 1, ai)
               [] mt = 5 /\ ai < 24 -> ItemsLen(B, 1, 2 * ai)
               [] mt \in {4, 5} ->
                     IF Len(B) < 1 + Width(t) THEN Short
                     ELSE ItemsLen(B, 1 + Width(t),
                                   (mt - 3) * DecodeUint(SubSeq(B, 2, 1 + Width(t))))
               [] t \in 192..197 \/ t \in 213..215 -> ItemsLen(B, 1, 1)
               [] t \in 198..212 -> 1
               [] t \in 216..219 ->
                     IF Len(B) < 1 + Width(t) THEN Short
                     ELSE ItemsLen(B, 1 + Width(t), 1)
               [] mt = 7 /\ ai < 24 -> 1
               [] mt = 7 -> FixedLen(B, 1 + Width(t))

\* B is exactly one data item of the dispatch table
WellFormed(B) == ItemLen(B) = Len(B)

\* B is a proper prefix of a data item of the dispatch table
Truncated(B) == ItemLen(B) = Short


(***************************************************************************)
(* Values.  A Value is a record of its kind, its octets (the payload of a  *)
(* byte or text string; the big-endian two's-complement octets of an       *)
(* integer at the width of its type; <<1>> or <<0>> for a boolean), its    *)
(* items (a sequence, or the values of a mapping) and its keys (the text   *)
(* keys of a mapping, in the order the mapping is iterated).               *)
(***************************************************************************)
Value(kind, octets, items, keys) ==
    [kind |-> kind, octets |-> octets, items |-> items, keys |-> keys]

Scalar(kind, octets) == Value(kind, octets, << >>, << >>)

Nil == Scalar("nil", << >>)

\* the size in octets of the platform's int, uint and uintptr (typ.Size())
IntSize == 8

(***************************************************************************)
(* Encoder.  A result is the Object, or a run-time panic.                  *)
(***************************************************************************)
Encoded(this) == [obj |-> this, panic |-> FALSE]

EncodePanic == [obj |-> << >>, panic |-> TRUE]

\* switch this.Tag() { case 0x58: ... case 0x5B: ... }: the count octets that
\* follow a tag with additional information 24..27, none after any other tag
EncodeCount(this, n) ==
    IF Tag(this) % 32 \in 24..27
    THEN Concatenate(this, EncodeUint(U64(n), Width(Tag(this))))
    ELSE this

\* case int, uint, uintptr: switch siz { case 4: ... case 8: ... }
EncodeWord(major, octets) ==
    IF IntSize \in {4, 8}
    THEN Concatenate(Refine(Define(major), U64(IntSize)),
                     SubSeq(octets, Len(octets) - IntSize + 1, Len(octets)))
    ELSE << >>

RECURSIVE Encode(_)
RECURSIVE EncodeItems(_, _)
RECURSIVE EncodeEntries(_, _, _)

\* for _, v := range ary { this = this.Concatenate(Encode(v)) }
EncodeItems(this, ary) ==
    IF Len(ary) = 0 THEN Encoded(this)
    ELSE LET vo == Encode(Head(ary))
         IN  IF vo.panic THEN EncodePanic
             ELSE EncodeItems(Concatenate(this, vo.obj), Tail(ary))

\* for k, v := range mmm { Concatenate(Encode(k)); Concatenate(Encode(v)) }
EncodeEntries(this, keys, items) ==
    IF Len(keys) = 0 THEN Encoded(this)
    ELSE LET ko == Encode(Scalar("string", Head(keys)))
             vo == Encode(Head(items))
         IN  IF ko.panic \/ vo.panic THEN EncodePanic
             ELSE EncodeEntries(Concatenate(Concatenate(this, ko.obj), vo.obj),
                                Tail(keys), Tail(items))

Encode(a) ==
    CASE a.kind = "nil" -> Encoded(<< 246 >>)
      [] a.kind = "uint8" ->
            Encoded(Concatenate(Refine(Define(MajorUint), U64(1)), a.octets))
      [] a.kind = "uint16" ->
            Encoded(Concatenate(Refine(Define(MajorUint), U64(2)), a.octets))
      [] a.kind = "uint32" ->
            Encoded(Concatenate(Refine(Define(MajorUint), U64(4)), a.octets))
      [] a.kind = "uint64" ->
            Encoded(Concatenate(Refine(Define(MajorUint), U64(8)), a.octets))
      \* a.(byte), a.(uint16), a.(uint32), a.(uint64) of a signed value
      [] a.kind \in {"int8", "int16", "int32", "int64"} -> EncodePanic
      [] a.kind = "int" -> Encoded(EncodeWord(MajorSint, a.octets))
      [] a.kind \in {"uint", "uintptr"} -> Encoded(EncodeWord(MajorUint, a.octets))
      [] a.kind = "bytes" ->
            Encoded(Concatenate(
                EncodeCount(Refine(Define(MajorBlob), U64(Len(a.octets))),
                            Len(a.octets)),
                a.octets))
      [] a.kind = "string" ->
            Encoded(Concatenate(
                EncodeCount(Refine(Define(MajorText), U64(Len(a.octets))),
                            Len(a.octets)),
                a.octets))
      [] a.kind = "array" ->
            EncodeItems(
                EncodeCount(Refine(Define(MajorArray), U64(Len(a.items))),
                            Len(a.items)),
                a.items)
      [] a.kind = "map" ->
            EncodeEntries(
                EncodeCount(Refine(Define(MajorMap), U64(Len(a.keys))),
                            Len(a.keys)),
                a.keys, a.items)
      [] OTHER -> Encoded(<< 247 >>)


(***************************************************************************)
(* Decoder.  Decode returns a Value; besides the kinds of the encoder's    *)
(* values a result may be of kind "bigint" (big.Int, octets its            *)
(* magnitude), "Object" (a value of type Object), "Break" (the error       *)
(* value), "panic" (a run-time panic: an index or a slice bound out of     *)
(* range, a failed type assertion) and "short codec" (the octet codec was  *)
(* handed fewer octets than its width, which its contract excludes).       *)
(* A buffer made by Concatenate, Define or a literal has capacity equal to *)
(* its length, so a slice bound above the length is out of range.          *)
(***************************************************************************)
DecodePanic == Scalar("panic", << >>)

ShortCodec == Scalar("short codec", << >>)

\* this[lo:hi] is in range
InRange(this, lo, hi) == lo <= hi /\ hi <= Len(this)

\* this[lo:hi]
Slice(this, lo, hi) == SubSeq(this, lo + 1, hi)

\* the int -1-delta as the octets of the platform's int
IntOctets(delta) == [i \in 1..IntSize |-> IF i = IntSize THEN 255 - delta ELSE 255]

\* case 0x18, 0x38: cnt = this[1]; text = this[2:(2+cnt)]; switch cnt
DecodeByCount(this, k2, k4, k8) ==
    IF Len(this) < 2 THEN DecodePanic
    ELSE LET cnt == this[2]
             hi == (2 + cnt) % 256
         IN  IF ~InRange(this, 2, hi) THEN DecodePanic
             ELSE LET text == Slice(this, 2, hi)
                  IN  CASE cnt = 2 -> Scalar(k2, text)
                        [] cnt = 4 -> Scalar(k4, text)
                        [] cnt = 8 -> Scalar(k8, text)
                        [] OTHER -> Scalar("bigint", text)

\* cases whose count is decoded from this[1:2], this[1:4] or this[1:8], one
\* octet short of the width of the codec
DecodeShort(this, w) ==
    IF ~InRange(this, 1, w) THEN DecodePanic ELSE ShortCodec

\* o[k] = v in a mapping held as parallel sequences of keys and values
RECURSIVE MapPut(_, _, _, _)
MapPut(keys, items, k, v) ==
    IF Len(keys) = 0 THEN [keys |-> << k >>, items |-> << v >>]
    ELSE IF Head(keys) = k THEN [keys |-> keys, items |-> << v >> \o Tail(items)]
    ELSE LET m == MapPut(Tail(keys), Tail(items), k, v)
         IN  [keys |-> << Head(keys) >> \o m.keys,
              items |-> << Head(items) >> \o m.items]

RECURSIVE Decode(_)
RECURSIVE DecodeChunks(_, _)
RECURSIVE DecodeItems(_, _, _)
RECURSIVE DecodeAppend(_, _)
RECURSIVE DecodeEntries(_, _, _, _, _)

\* a = o.Decode(); if nil != a { src = a.([]byte); bary.Concatenate(src) }:
\* the result of Concatenate is dropped, bary stays as it was
DecodeChunk(o, a, bary) ==
    IF a.kind \in {"nil", "bytes"} THEN DecodeChunks(o.r, bary)
    ELSE IF a.kind = "short codec" THEN ShortCodec
    ELSE DecodePanic

\* o, e = o.Read(b); if nil != e { break } else { ... }
DecodeChunkRead(o, bary) ==
    IF Panics(o.err) THEN DecodePanic
    ELSE IF o.err # NoError THEN Scalar("Object", bary)
    ELSE DecodeChunk(o, Decode(o.obj), bary)

\* cases 0x5F, 0x7F: for true { ... }; return bary
DecodeChunks(b, bary) == DecodeChunkRead(Read(b), bary)

\* a[n] = o.Decode()
DecodeItem(o, a, done, left) ==
    IF a.kind \in {"panic", "short codec"} THEN a
    ELSE DecodeItems(o.r, Append(done, a), left - 1)

\* o, e = o.Read(b); if nil != e { break } else { a[n] = o.Decode() }
DecodeItemRead(o, done, left) ==
    IF Panics(o.err) THEN DecodePanic
    ELSE IF o.err # NoError
    THEN Value("array", << >>, done \o [i \in 1..left |-> Nil], << >>)
    ELSE DecodeItem(o, Decode(o.obj), done, left)

\* definite arrays: a = make([]any,m); for n = 0; n < m; n++ { ... }
\* (done holds the items set so far, left is the number of items not yet set)
DecodeItems(b, done, left) ==
    IF left = 0 THEN Value("array", << >>, done, << >>)
    ELSE DecodeItemRead(Read(b), done, left)

\* a = append(a, o.Decode())
DecodeAppended(o, a, done) ==
    IF a.kind \in {"panic", "short codec"} THEN a
    ELSE DecodeAppend(o.r, Append(done, a))

DecodeAppendRead(o, done) ==
    IF Panics(o.err) THEN DecodePanic
    ELSE IF o.err # NoError THEN Value("array", << >>, done, << >>)
    ELSE DecodeAppended(o, Decode(o.obj), done)

\* case 0x9F: for true { o, e = o.Read(b); ...; a = append(a, o.Decode()) }
DecodeAppend(b, done) == DecodeAppendRead(Read(b), done)

\* o[k] = vo.Decode()
DecodeEntryPut(vo, m, v, left, bounded) ==
    IF v.kind \in {"panic", "short codec"} THEN v
    ELSE DecodeEntries(vo.r, m.keys, m.items, left - 1, bounded)

\* a = ko.Decode(); if nil != a { k = a.(string); o[k] = vo.Decode() }
DecodeEntry(vo, a, v, keys, items, left, bounded) ==
    IF a.kind = "nil" THEN DecodeEntries(vo.r, keys, items, left - 1, bounded)
    ELSE IF a.kind = "short codec" THEN ShortCodec
    ELSE IF a.kind # "string" THEN DecodePanic
    ELSE DecodeEntryPut(vo, MapPut(keys, items, a.octets, v), v, left, bounded)

\* vo, e = vo.Read(b); if nil != e { break } else { ... }
DecodeEntryValue(ko, vo, keys, items, left, bounded) ==
    IF Panics(vo.err) THEN DecodePanic
    ELSE IF vo.err # NoError THEN Value("map", << >>, items, keys)
    ELSE DecodeEntry(vo, Decode(ko.obj), Decode(vo.obj), keys, items, left, bounded)

\* ko, e = ko.Read(b); if nil != e { break } else { ... }
DecodeEntryKey(ko, keys, items, left, bounded) ==
    IF Panics(ko.err) THEN DecodePanic
    ELSE IF ko.err # NoError THEN Value("map", << >>, items, keys)
    ELSE DecodeEntryValue(ko, Read(ko.r), keys, items, left, bounded)

\* maps: for n = 0; n < m; n++ { ... } and, for 0xBF, for nil == e { ... }
\* (left is the number of pairs still to read; not bounded for 0xBF)
DecodeEntries(b, keys, items, left, bounded) ==
    IF bounded /\ left = 0 THEN Value("map", << >>, items, keys)
    ELSE DecodeEntryKey(Read(b), keys, items, left, bounded)

\* cases 0xC0, 0xC1: a, e = a.Read(b); if nil == e { return a.Decode() }
DecodeTagged(a) ==
    IF Panics(a.err) THEN DecodePanic
    ELSE IF a.err = NoError THEN Decode(a.obj) ELSE Nil

\* case 0x7F: return string(bary)
DecodeText(bary) ==
    IF bary.kind \in {"panic", "short codec"} THEN bary
    ELSE Scalar("string", bary.octets)

\* cases 0x40..0x57: m = int(tag-0x40); text = this[1:(m+1)]; return text
DecodeBytes(this, m) ==
    IF InRange(this, 1, m + 1) THEN Scalar("bytes", Slice(this, 1, m + 1))
    ELSE DecodePanic

\* cases 0x60..0x77: m = int(tag-0x60); text = this[1:(m+1)]; return string(text)
DecodeString(this, m) ==
    IF InRange(this, 1, m + 1) THEN Scalar("string", Slice(this, 1, m + 1))
    ELSE DecodePanic

\* the switch of Object.Decode on the tag
DecodeSwitch(this, tag) ==
    CASE tag \in 0..23 -> Scalar("uint8", << tag >>)                \* 0x00..0x17
      [] tag = 24 -> DecodeByCount(this, "uint16", "uint32", "uint64")
      [] tag \in 25..27 -> DecodeShort(this, Width(tag))            \* 0x19..0x1B
      [] tag \in 32..55 -> Scalar("int", IntOctets(tag - 32))       \* 0x20..0x37
      [] tag = 56 -> DecodeByCount(this, "int16", "int32", "int64") \* 0x38
      [] tag \in 57..59 -> DecodeShort(this, Width(tag))            \* 0x39..0x3B
      [] tag \in 64..87 -> DecodeBytes(this, tag - 64)               \* 0x40..0x57
      [] tag = 88 ->                                                \* 0x58
            IF Len(this) < 2 THEN DecodePanic
            ELSE IF InRange(this, 2, (3 + this[2]) % 256)
            THEN Scalar("bytes", Slice(this, 2, (3 + this[2]) % 256))
            ELSE DecodePanic
      [] tag \in 89..91 -> DecodeShort(this, Width(tag))            \* 0x59..0x5B
      [] tag = 95 -> DecodeChunks(NewBuffer(Slice(this, 1, Len(this))), << >>)
      [] tag \in 96..119 -> DecodeString(this, tag - 96)             \* 0x60..0x77
      [] tag = 120 ->                                               \* 0x78
            IF Len(this) < 2 THEN DecodePanic
            ELSE IF InRange(this, 2, (2 + this[2]) % 256)
            THEN Scalar("string", Slice(this, 2, (2 + this[2]) % 256))
            ELSE DecodePanic
      [] tag \in 121..123 -> DecodeShort(this, Width(tag))          \* 0x79..0x7B
      [] tag = 127 ->                                               \* 0x7F
            DecodeText(DecodeChunks(NewBuffer(Slice(this, 1, Len(this))), << >>))
      [] tag \in 128..151 ->                                        \* 0x80..0x97
            DecodeItems(NewBuffer(Slice(this, 1, Len(this))), << >>, tag - 128)
      [] tag = 152 ->                                               \* 0x98
            IF Len(this) < 2 THEN DecodePanic
            ELSE DecodeItems(NewBuffer(Slice(this, 2, Len(this))), << >>, this[2])
      [] tag \in 153..155 -> DecodeShort(this, Width(tag))          \* 0x99..0x9B
      [] tag = 159 -> DecodeAppend(NewBuffer(Slice(this, 1, Len(this))), << >>)
      [] tag \in 160..183 ->                                        \* 0xA0..0xB7
            DecodeEntries(NewBuffer(Slice(this, 1, Len(this))), << >>, << >>,
                          tag - 160, TRUE)
      [] tag = 184 ->                                               \* 0xB8
            IF Len(this) < 2 THEN DecodePanic
            ELSE DecodeEntries(NewBuffer(Slice(this, 2, Len(this))), << >>, << >>,
                               this[2], TRUE)
      [] tag \in 185..187 -> DecodeShort(this, Width(tag))          \* 0xB9..0xBB
      [] tag = 191 ->                                               \* 0xBF
            DecodeEntries(NewBuffer(Slice(this, 1, Len(this))), << >>, << >>,
                          Saturated, FALSE)
      [] tag \in 192..193 ->                                        \* 0xC0, 0xC1
            DecodeTagged(Read(NewBuffer(Slice(this, 1, Len(this)))))
      [] tag \in 194..195 -> Scalar("bigint", Slice(this, 1, Len(this)))
      [] tag = 244 -> Scalar("bool", << 0 >>)                       \* 0xF4
      [] tag = 245 -> Scalar("bool", << 1 >>)                       \* 0xF5
      [] tag = 248 ->                                               \* 0xF8
            IF Len(this) < 2 THEN DecodePanic ELSE Scalar("uint8", << this[2] >>)
      [] tag \in 250..251 -> DecodeShort(this, Width(tag))          \* 0xFA, 0xFB
      [] tag = 255 -> Scalar("Break", << >>)                        \* 0xFF
      [] OTHER -> Nil

Decode(this) == IF HasTag(this) THEN DecodeSwitch(this, Tag(this)) ELSE Nil

\* Object.Text: a = this.Decode(); if nil != a { return a.(string) } else ""
TextOf(a) ==
    IF a.kind = "nil" THEN Scalar("string", << >>)
    ELSE IF a.kind \in {"string", "short codec"} THEN a
    ELSE DecodePanic

Text(this) == TextOf(Decode(this))


(***************************************************************************)
(* The inputs of the model.                                                *)
(***************************************************************************)
BoundedSeqs(S, n) == UNION { [1..k -> S] : k \in 0..n }

Prefixes(B) == { SubSeq(B, 1, k) : k \in 0..Len(B) }

\* n octets 'a'
Letters(n) == [i \in 1..n |-> 97]

\* octets of the sources enumerated up to MaxLen: 0x00, 0x18, 0x40, 0x41, 0x5F,
\* 0x61, 0x81, 0x9F, 0xBF, 0xFF
Alphabet == {0, 24, 64, 65, 95, 97, 129, 159, 191, 255}

\* every first octet with additional information 28, 29 or 30
ReservedTags == { 32 * mt + ai : mt \in 0..7, ai \in 28..30 }

\* longer items of every tag class, with 1-, 2-, 4- and 8-octet prefixes
Vectors ==
    { << 25, 1, 0 >>, << 26, 0, 0, 0, 1 >>, << 27, 0, 0, 0, 0, 0, 0, 0, 1 >>,
      << 56, 1, 9 >>, << 57, 0, 1, 9 >>, << 58, 0, 0, 0, 1, 9 >>,
      << 59, 0, 0, 0, 0, 0, 0, 0, 1, 9 >>,
      << 88, 1, 97 >>, << 89, 0, 1, 97 >>, << 90, 0, 0, 0, 1, 97 >>,
      << 91, 0, 0, 0, 0, 0, 0, 0, 1, 97 >>,
      << 120, 1, 97 >>, << 121, 0, 1, 97 >>, << 122, 0, 0, 0, 1, 97 >>,
      << 123, 0, 0, 0, 0, 0, 0, 0, 1, 97 >>,
      << 95, 66, 1, 2, 67, 3, 4, 5, 255 >>, << 127, 97, 97, 97, 98, 255 >>,
      << 152, 1, 0 >>, << 153, 0, 1, 0 >>, << 154, 0, 0, 0, 1, 0 >>,
      << 155, 0, 0, 0, 0, 0, 0, 0, 1, 0 >>,
      << 184, 1, 97, 97, 0 >>, << 185, 0, 1, 97, 97, 0 >>,
      << 186, 0, 0, 0, 1, 97, 97, 0 >>,
      << 187, 0, 0, 0, 0, 0, 0, 0, 1, 97, 97, 0 >>,
      << 159, 159, 0, 255, 255 >>, << 191, 97, 97, 159, 255, 255 >>,
      << 130, 64, 65, 255 >>, << 130, 1, 2 >>, << 161, 97, 97, 64 >>,
      << 129, 28 >>, << 159, 28 >>, << 194, 64 >>,
      << 192, 97, 97 >>, << 194, 73, 1, 0, 0, 0, 0, 0, 0, 0, 0 >>,
      << 196, 130, 1, 2 >>, << 198 >>, << 213, 65, 1 >>,
      << 192, 255 >>, << 213, 255 >>, << 216, 32, 255 >>,
      << 91, 255, 255, 255, 255, 255, 255, 255, 255 >>,
      << 129, 123, 128, 0, 0, 0, 0, 0, 0, 0 >>,
      << 216, 32, 0 >>, << 217, 1, 0, 0 >>, << 218, 0, 0, 1, 0, 0 >>,
      << 219, 0, 0, 0, 0, 0, 0, 1, 0, 0 >>,
      << 224 >>, << 244 >>, << 245 >>, << 246 >>, << 247 >>, << 248, 32 >>,
      << 249, 60, 0 >>, << 250, 0, 0, 0, 0 >>, << 251, 0, 0, 0, 0, 0, 0, 0, 0 >> }

Sources ==
    BoundedSeqs(Alphabet, MaxLen)
        \cup UNION { Prefixes(B) : B \in Vectors }
        \cup { << t >> \o B : t \in ReservedTags, B \in BoundedSeqs({0, 255}, 1) }

\* 64-bit sizes at and around every threshold of Refine
Sizes ==
    { U64(n) : n \in {0, 1, 22, 23, 24, 25, 254, 255, 256, 257, 65534, 65535,
                      65536, 65537} }
        \cup { << 0, 0, 0, 0, 255, 255, 255, 254 >>, << 0, 0, 0, 0, 255, 255, 255, 255 >>,
               << 0, 0, 0, 1, 0, 0, 0, 0 >>, << 0, 0, 0, 1, 0, 0, 0, 1 >>,
               << 1, 0, 0, 0, 0, 0, 0, 0 >>,
               << 255, 255, 255, 255, 255, 255, 255, 255 >> }

\* the operands of Concatenate
Operands == BoundedSeqs({96, 97, 255}, MaxLen)

\* payloads of byte and text strings: every length up to MaxLen, and the
\* lengths at which the length prefix changes
Payloads ==
    BoundedSeqs({97, 98}, MaxLen - 1)
        \cup { Letters(23), Letters(24), Letters(254), Letters(255), Letters(256) }

IntegerValues ==
    { Scalar("uint8", << n >>) : n \in {0, 1, 5, 23, 24, 255} }
        \cup { Scalar("uint16", B) : B \in { << 0, 2 >>, << 1, 0 >> } }
        \cup { Scalar("uint32", B) : B \in { << 0, 0, 0, 4 >>, << 1, 0, 0, 0 >> } }
        \cup { Scalar("uint64", B) : B \in { U64(8), << 1, 0, 0, 0, 0, 0, 0, 0 >> } }
        \cup { Scalar("int8", B) : B \in { << 1 >>, << 255 >> } }
        \cup { Scalar("int16", B) : B \in { << 0, 2 >>, << 255, 255 >> } }
        \cup { Scalar("int32", B) : B \in { << 0, 0, 0, 4 >> } }
        \cup { Scalar("int64", B) : B \in { U64(8) } }
        \cup { Scalar(k, SubSeq(B, 9 - IntSize, 8)) :
                  k \in {"int", "uint", "uintptr"},
                  B \in { U64(0), U64(8), U64(13),
                          << 255, 255, 255, 255, 255, 255, 255, 255 >> } }

Scalars ==
    IntegerValues
        \cup { Scalar("bytes", B) : B \in Payloads }
        \cup { Scalar("string", B) : B \in Payloads }
        \cup { Scalar("bool", << 0 >>), Scalar("bool", << 1 >>), Nil,
               Scalar("float64", << >>) }

\* the members of the sequences and mappings of the model
Members ==
    { Scalar("uint8", << 1 >>), Scalar("uint8", << 5 >>),
      Scalar("int", SubSeq(U64(13), 9 - IntSize, 8)),
      Scalar("bytes", << >>), Scalar("bytes", << 97 >>),
      Scalar("string", << >>), Scalar("string", << 97, 98 >>),
      Scalar("bool", << 1 >>), Nil,
      Value("array", << >>, << >>, << >>),
      Value("array", << >>, << Scalar("string", << 97 >>) >>, << >>),
      Value("map", << >>, << Scalar("bytes", << 98 >>) >>, << << 97 >> >>) }

\* the text keys of the mappings of the model
Keys == { << >>, << 97 >>, << 98 >>, << 97, 98 >> }

\* longest sequence and largest mapping enumerated
MaxItems == 2

Arrays == { Value("array", << >>, items, << >>) : items \in BoundedSeqs(Members, MaxItems) }

Distinct(keys) == \A i, j \in 1..Len(keys) : i # j => keys[i] # keys[j]

\* the values of the mappings of the model
Entries ==
    { Scalar("uint8", << 5 >>),
      Scalar("bytes", << 97 >>),
      Scalar("string", << >>), Scalar("string", << 97, 98 >>),
      Nil,
      Value("array", << >>, << Scalar("string", << 97 >>) >>, << >>) }

Maps ==
    UNION { { Value("map", << >>, items, keys) :
                 items \in [1..n -> Entries],
                 keys \in { k \in [1..n -> Keys] : Distinct(k) } } : n \in 0..MaxItems }

Values == Scalars \cup Arrays \cup Maps

NoValue == Scalar("none", << >>)

(***************************************************************************)
(* The state: a caller holding a source, a sink and Objects, who reads,    *)
(* writes, encodes, decodes, defines, refines and concatenates.            *)
(***************************************************************************)
VARIABLES
    pc,        \* the position of the caller
    input,     \* the octets the source held when it was handed over
    wire,      \* the source: the reader Read takes octets from
    sink,      \* the octets Write has handed to the sink
    got,       \* what each call of Read returned, in order
    value,     \* the Value handed to Encode
    code,      \* the Object the caller holds
    decoded,   \* what Decode returned
    major,     \* the major type handed to Define
    size,      \* the size handed to Refine
    operand,   \* the operand handed to Concatenate
    joined,    \* what Concatenate returned
    store,     \* the octet arrays allocated so far; an index is a storage
    held,      \* the Objects the caller obtained, in order, each with its storage
    views      \* the strings Decode returned to that caller, each with its storage

vars == << pc, input, wire, sink, got, value, code, decoded, major, size, operand, joined,
          store, held, views >>

\* no source, no sink, nothing read
NoSource ==
    /\ input = << >>
    /\ wire = NewBuffer(<< >>)

NoTraffic ==
    /\ sink = << >>
    /\ got = << >>

\* no Value, nothing decoded
NoCodec ==
    /\ value = NoValue
    /\ decoded = NoValue

\* nothing defined, refined or concatenated
NoBuffer ==
    /\ major = 0
    /\ size = U64(0)
    /\ joined = << >>

\* no Object held by reference
NoObjects ==
    /\ store = << >>
    /\ held = << >>
    /\ views = << >>

\* a caller with a source to read
InitSource ==
    /\ pc = "source"
    /\ input \in Sources
    /\ \E k \in ReaderKinds : wire = [buf |-> input, kind |-> k]
    /\ code = << >>
    /\ operand = << >>
    /\ NoTraffic /\ NoCodec /\ NoBuffer /\ NoObjects

\* a caller with a Value to encode
InitValue ==
    /\ pc = "value"
    /\ value \in Values
    /\ decoded = NoValue
    /\ code = << >>
    /\ operand = << >>
    /\ NoSource /\ NoTraffic /\ NoBuffer /\ NoObjects

\* a caller with two octet arrays to concatenate
InitOperands ==
    /\ pc = "operands"
    /\ code \in Operands
    /\ operand \in Operands
    /\ NoSource /\ NoTraffic /\ NoCodec /\ NoBuffer /\ NoObjects

\* a caller about to define an Object
InitObject ==
    /\ pc = "object"
    /\ code = << >>
    /\ operand = << >>
    /\ NoSource /\ NoTraffic /\ NoCodec /\ NoBuffer /\ NoObjects

\* a caller that builds Objects and keeps every one of them
InitStore ==
    /\ pc = "store"
    /\ code = << >>
    /\ operand = << >>
    /\ NoSource /\ NoTraffic /\ NoCodec /\ NoBuffer /\ NoObjects

Init == InitSource \/ InitValue \/ InitOperands \/ InitObject \/ InitStore

\* what the caller keeps of a call of Read: the result, the octets it took,
\* and the Object it was called on as it was before and as it is after
Outcome(res, on, before) ==
    [obj |-> res.obj, isNil |-> res.isNil, err |-> res.err,
     taken |-> SubSeq(before, 1, Len(before) - Len(res.r.buf)),
     on |-> on, this |-> res.this]

Last(q) == q[Len(q)]

\* the Object the next call is made on: the empty Object of the first call,
\* then the Object the call before returned
Receiver(q) == IF Len(q) = 0 THEN << >> ELSE Last(q).obj

\* o, e = o.Read(r) on the source, first or after an earlier item
ReadItem ==
    /\ pc \in {"source", "written", "read"}
    /\ pc = "read" => (Last(got).err = NoError /\ Len(wire.buf) > 0)
    /\ LET res == ReadOn(Receiver(got), wire)
       IN  /\ got' = Append(got, Outcome(res, Receiver(got), wire.buf))
           /\ wire' = res.r
    /\ pc' = IF Panics(Last(got').err) THEN "panicked" ELSE "read"
    /\ UNCHANGED << input, sink, value, code, decoded, major, size, operand, joined, store, held, views >>

\* o.Write(w) of the Object the last Read returned
WriteObject ==
    /\ pc = "read"
    /\ value = NoValue
    /\ ~Last(got).isNil
    /\ sink' = Write(Last(got).obj, sink)
    /\ pc' = "flushed"
    /\ UNCHANGED << input, wire, got, value, code, decoded, major, size, operand, joined, store, held, views >>

\* o.Decode() of the Object the last Read returned
DecodeObject ==
    /\ pc = "read"
    /\ value = NoValue
    /\ ~Last(got).isNil
    /\ decoded' = Decode(Last(got).obj)
    /\ pc' = "decoded"
    /\ UNCHANGED << input, wire, sink, got, value, code, major, size, operand, joined, store, held, views >>

\* code = Encode(value)
EncodeValue ==
    /\ pc = "value"
    /\ LET res == Encode(value)
       IN  /\ code' = res.obj
           /\ pc' = IF res.panic THEN "panicked" ELSE "encoded"
    /\ UNCHANGED << input, wire, sink, got, value, decoded, major, size, operand, joined, store, held, views >>

\* code.Write(w) into a bytes.Buffer that is then read back
WriteCode ==
    /\ pc = "encoded"
    /\ wire' = [wire EXCEPT !.buf = Write(code, @)]
    /\ pc' = "written"
    /\ UNCHANGED << input, sink, got, value, code, decoded, major, size, operand, joined, store, held, views >>

\* code.Decode()
DecodeCode ==
    /\ pc = "encoded"
    /\ decoded' = Decode(code)
    /\ pc' = "decoded"
    /\ UNCHANGED << input, wire, sink, got, value, code, major, size, operand, joined, store, held, views >>

\* code = Define(m)
DefineObject ==
    /\ pc = "object"
    /\ \E m \in 0..7 :
          /\ major' = m
          /\ code' = Define(m)
    /\ pc' = "defined"
    /\ UNCHANGED << input, wire, sink, got, value, decoded, size, operand, joined, store, held, views >>

\* code = code.Refine(size)
RefineObject ==
    /\ pc = "defined"
    /\ \E z \in Sizes :
          /\ size' = z
          /\ code' = Refine(code, z)
    /\ pc' = "refined"
    /\ UNCHANGED << input, wire, sink, got, value, decoded, major, operand, joined, store, held, views >>

\* joined = code.Concatenate(operand)
ConcatenateObjects ==
    /\ pc = "operands"
    /\ joined' = Concatenate(code, operand)
    /\ pc' = "joined"
    /\ UNCHANGED << input, wire, sink, got, value, code, decoded, major, size, operand, store, held, views >>

(***************************************************************************)
(* Objects by reference.  An Object is a slice: what the caller holds is a *)
(* reference to an octet array, and two Objects can refer to one array.    *)
(* store lists the arrays; held lists the Objects the caller obtained,     *)
(* each with the index of its array (at), its octets when it was obtained  *)
(* (octets) and the arrays of the operands of the call that returned it    *)
(* (from, empty for a literal and for Define).                             *)
(***************************************************************************)
\* most Objects a caller obtains
MaxObjects == 3

\* the literals, the major types and the sizes of that caller
Literals == { << >>, << 97 >>, << 65, 7 >>, << 97, 98 >> }

HeldMajors == { MajorUint, MajorArray, MajorSimple }

HeldSizes == { U64(1), U64(24) }

Held(at, octets, from) == [at |-> at, octets |-> octets, from |-> from]

\* this = Object{...}: a new array
LiteralObject ==
    /\ pc = "store"
    /\ Len(held) < MaxObjects
    /\ \E B \in Literals :
          /\ store' = Append(store, B)
          /\ held' = Append(held, Held(Len(store) + 1, B, {}))
    /\ UNCHANGED << pc, input, wire, sink, got, value, code, decoded, major, size,
                    operand, joined, views >>

\* this = Object{major}: a new array
DefineHeld ==
    /\ pc = "store"
    /\ Len(held) < MaxObjects
    /\ \E m \in HeldMajors :
          /\ store' = Append(store, Define(m))
          /\ held' = Append(held, Held(Len(store) + 1, Define(m), {}))
    /\ UNCHANGED << pc, input, wire, sink, got, value, code, decoded, major, size,
                    operand, joined, views >>

\* this[0] = ...; return this: the tag is written into the array of the
\* receiver and the receiver is returned; this[0] of an empty Object is out
\* of range
RefineHeld ==
    /\ pc = "store"
    /\ Len(held) < MaxObjects
    /\ \E i \in 1..Len(held), z \in HeldSizes :
          LET a == held[i].at
          IN  IF HasTag(store[a])
              THEN /\ store' = [store EXCEPT ![a] = Refine(@, z)]
                   /\ held' = Append(held, Held(a, Refine(store[a], z), {a}))
                   /\ pc' = pc
              ELSE /\ pc' = "panicked"
                   /\ UNCHANGED << store, held >>
    /\ UNCHANGED << input, wire, sink, got, value, code, decoded, major, size,
                    operand, joined, views >>

\* this = b when a or b is empty: the array of b; else c = make([]byte,c_len)
ConcatenateHeld ==
    /\ pc = "store"
    /\ Len(held) < MaxObjects
    /\ \E i, j \in 1..Len(held) :
          LET a == store[held[i].at]
              b == store[held[j].at]
              from == {held[i].at, held[j].at}
          IN  IF Len(a) = 0 \/ Len(b) = 0
              THEN /\ held' = Append(held, Held(held[j].at, Concatenate(a, b), from))
                   /\ store' = store
              ELSE /\ held' = Append(held, Held(Len(store) + 1, Concatenate(a, b), from))
                   /\ store' = Append(store, Concatenate(a, b))
    /\ UNCHANGED << pc, input, wire, sink, got, value, code, decoded, major, size,
                    operand, joined, views >>

\* most strings that caller decodes
MaxViews == 1

\* the string a that Decode returned for the held Object i.  A byte string
\* is returned as a slice of the Object (text = this[1:(m+1)]; return text):
\* the same array, from its second octet on.  A text string is returned as
\* string(text): a copy, in an array of its own.
Decoded(i, a) ==
    [of |-> i,
     at |-> IF a.kind = "bytes" THEN held[i].at ELSE Len(store) + 1,
     lo |-> IF a.kind = "bytes" THEN 1 ELSE 0,
     value |-> a,
     kept |-> TRUE]

\* Decode of an Object whose tag is 0x40..0x57 or 0x60..0x77
DecodeDefinite(this) ==
    IF Tag(this) < 96 THEN DecodeBytes(this, Tag(this) - 64)
    ELSE DecodeString(this, Tag(this) - 96)

\* a = o.Decode() of a held Object that is a definite-length byte or text
\* string with its length in the tag
DecodeHeld ==
    /\ pc = "store"
    /\ Len(views) < MaxViews
    /\ \E i \in 1..Len(held) :
          /\ Tag(store[held[i].at]) \in 64..87 \cup 96..119
          /\ decoded' = DecodeDefinite(store[held[i].at])
          /\ decoded'.kind \in {"bytes", "string"}
          /\ views' = Append(views, Decoded(i, decoded'))
          /\ store' = IF decoded'.kind = "bytes" THEN store
                                                ELSE Append(store, decoded'.octets)
    /\ UNCHANGED << pc, input, wire, sink, got, value, code, major, size,
                    operand, joined, held >>

\* a.([]byte)[0] = x: the caller changes the first octet of a decoded byte
\* sequence; kept tells whether the array of the Object stayed as it was
ChangeDecoded ==
    /\ pc = "store"
    /\ \E k \in 1..Len(views), x \in {0, 255} :
          LET v == views[k]
              o == held[v.of].at
          IN  /\ v.value.kind = "bytes"
              /\ Len(v.value.octets) > 0
              /\ v.kept
              /\ store[v.at][v.lo + 1] # x
              /\ store' = [store EXCEPT ![v.at][v.lo + 1] = x]
              /\ views' = [views EXCEPT ![k].kept = (store'[o] = store[o])]
    /\ UNCHANGED << pc, input, wire, sink, got, value, code, decoded, major, size,
                    operand, joined, held >>

Next ==
    \/ ReadItem
    \/ WriteObject
    \/ DecodeObject
    \/ EncodeValue
    \/ WriteCode
    \/ DecodeCode
    \/ DefineObject
    \/ RefineObject
    \/ ConcatenateObjects
    \/ LiteralObject
    \/ DefineHeld
    \/ RefineHeld
    \/ ConcatenateHeld
    \/ DecodeHeld
    \/ ChangeDecoded

Spec == Init /\ [][Next]_vars

(***************************************************************************)
(* Properties.                                                             *)
(***************************************************************************)
\* the call of Read on the source as it was handed over
FirstRead == value = NoValue /\ Len(got) >= 1

\* C1: for every well-formed encoding B of one data item, Read on a source
\* holding B returns without error an Object equal to B octet for octet, and
\* Write of that Object emits exactly B.
C1_ReadWriteRoundTrip ==
    (FirstRead /\ WellFormed(input)) =>
        /\ got[1].err = NoError
        /\ ~got[1].isNil
        /\ got[1].obj = input
        /\ (pc = "flushed" /\ Len(got) = 1) => sink = input

IntegerKinds ==
    {"uint8", "uint16", "uint32", "uint64", "uint", "uintptr",
     "int8", "int16", "int32", "int64", "int"}

SignedKinds == {"int8", "int16", "int32", "int64", "int"}

\* the number an integer Value holds: its sign and its octets extended to 64 bits
Numeric(v) ==
    LET neg == v.kind \in SignedKinds /\ v.octets[1] >= 128
    IN  [neg |-> neg,
         octets |-> [i \in 1..(8 - Len(v.octets)) |-> IF neg THEN 255 ELSE 0] \o v.octets]

\* equality of Values: numeric for integers, byte-wise for strings, identity
\* for booleans and null, element by element for sequences, key by key for
\* mappings
RECURSIVE ValueEquiv(_, _)
ValueEquiv(v, d) ==
    CASE v.kind \in IntegerKinds ->
            d.kind \in IntegerKinds /\ Numeric(v) = Numeric(d)
      [] v.kind \in {"bytes", "string"} -> d.kind = v.kind /\ d.octets = v.octets
      [] v.kind \in {"bool", "nil"} -> d = v
      [] v.kind = "array" ->
            /\ d.kind = "array"
            /\ Len(d.items) = Len(v.items)
            /\ \A i \in 1..Len(v.items) : ValueEquiv(v.items[i], d.items[i])
      [] v.kind = "map" ->
            /\ d.kind = "map"
            /\ { v.keys[i] : i \in 1..Len(v.keys) } = { d.keys[j] : j \in 1..Len(d.keys) }
            /\ Len(d.keys) = Len(v.keys)
            /\ \A i \in 1..Len(v.keys) : \A j \in 1..Len(d.keys) :
                  v.keys[i] = d.keys[j] => ValueEquiv(v.items[i], d.items[j])
      [] OTHER -> FALSE

\* the Value domain: integers, byte and text strings, sequences, text-keyed
\* mappings, booleans, null
RECURSIVE InValueDomain(_)
InValueDomain(v) ==
    /\ v.kind \in IntegerKinds \cup {"bytes", "string", "bool", "nil", "array", "map"}
    /\ \A i \in 1..Len(v.items) : InValueDomain(v.items[i])

\* C2: for every value V of the Value domain, Decode(Encode(V)) returns and
\* equals V.
C2_DecodeEncode ==
    (InValueDomain(value) /\ pc \in {"panicked", "decoded"}) =>
        pc = "decoded" /\ ValueEquiv(value, decoded)

\* C3: for every Object O returned by Encode, Read of the octets Write(O)
\* emits returns without error an Object byte-equal to O and leaves no octet
\* of O unread.
C3_ReadWrittenCode ==
    (value # NoValue /\ pc = "read" /\ Len(got) = 1) =>
        /\ got[1].err = NoError
        /\ ~got[1].isNil
        /\ got[1].obj = code
        /\ wire.buf = << >>

\* C4: for every input whose first octet has additional information 28, 29
\* or 30, whatever follows, Read fails with ErrorUnrecognizedTag and returns
\* no Object.
C4_ReservedTag ==
    (FirstRead /\ Len(input) >= 1 /\ input[1] % 32 \in 28..30) =>
        got[1].isNil /\ got[1].err = ErrorUnrecognizedTag

\* a reserved first octet with an octet after it has been read and refused
C4_Witness ==
    /\ FirstRead
    /\ input = << 220, 255 >>
    /\ got[1].isNil
    /\ got[1].err = ErrorUnrecognizedTag

\* C5: for every proper prefix of a well-formed encoding Read fails with
\* ErrorMissingData, for the zero-octet prefix with the missing-tag error,
\* and neither is the error of the source itself.
C5_Truncated ==
    (FirstRead /\ Truncated(input)) =>
        /\ got[1].isNil
        /\ got[1].err.base # EOF.base
        /\ got[1].err.base =
              IF Len(input) = 0 THEN ErrorMissingTag.base ELSE ErrorMissingData.base

\* the additional information of the thresholds 0x17, 0xFF, 0xFFFF and
\* 0xFFFFFFFF, read off the octets of the size
RefineExpected(m, z) ==
    IF SubSeq(z, 1, 7) = << 0, 0, 0, 0, 0, 0, 0 >> /\ z[8] <= 23 THEN 32 * m + z[8]
    ELSE IF SubSeq(z, 1, 7) = << 0, 0, 0, 0, 0, 0, 0 >> THEN 32 * m + 24
    ELSE IF SubSeq(z, 1, 6) = << 0, 0, 0, 0, 0, 0 >> THEN 32 * m + 25
    ELSE IF SubSeq(z, 1, 4) = << 0, 0, 0, 0 >> THEN 32 * m + 26
    ELSE 32 * m + 27

\* C6: Refine(size) applied to Define(m), m in 0..5, sets the leading octet
\* to 32*m + size for size <= 23, to 32*m + 24 up to 0xFF, 32*m + 25 up to
\* 0xFFFF, 32*m + 26 up to 0xFFFFFFFF and 32*m + 27 above.
C6_RefineThresholds ==
    (pc = "refined" /\ major \in 0..5) => code = << RefineExpected(major, size) >>

\* a map header has been refined with the first size above 0xFFFFFFFF
C6_Witness ==
    /\ pc = "refined"
    /\ major = MajorMap
    /\ size = << 0, 0, 0, 1, 0, 0, 0, 0 >>
    /\ code = << 187 >>

\* C7: Concatenate(a, b) returns the octets of a followed by the octets of b
\* for all a and b, empty operands included.
C7_Concatenate ==
    pc = "joined" => joined = code \o operand

\* C8: for every text string s the Object o = Encode(s) has Major() equal to
\* MajorText and o.Text() returns s.
C8_EncodeText ==
    (pc = "encoded" /\ value.kind = "string") =>
        Major(code) = MajorText /\ Text(code) = value

\* a mapping of at most 23 text keys to text and byte strings
TextMap(v) ==
    /\ v.kind = "map"
    /\ Len(v.keys) <= 23
    /\ \A i \in 1..Len(v.items) : v.items[i].kind \in {"string", "bytes"}

\* the key/value encodings of a mapping one after the other
RECURSIVE EntryEncodings(_, _)
EntryEncodings(keys, items) ==
    IF Len(keys) = 0 THEN << >>
    ELSE Encode(Scalar("string", Head(keys))).obj \o Encode(Head(items)).obj
            \o EntryEncodings(Tail(keys), Tail(items))

\* C9: for every mapping of n <= 23 distinct text keys to text or byte
\* strings, Encode yields 0xA0 + n followed by the n key/value encodings, and
\* Decode of that Object restores the keys and each key's value.
C9_TextMap ==
    /\ (TextMap(value) /\ pc = "encoded") =>
          code = << 160 + Len(value.keys) >> \o EntryEncodings(value.keys, value.items)
    /\ (TextMap(value) /\ pc = "decoded") => ValueEquiv(value, decoded)

\* C10: whenever the first octet Read takes is 0xFF it returns Break and no
\* Object, and no Object Read returns has the leading octet 0xFF.
C10_Break ==
    \A i \in 1..Len(got) :
        /\ (Len(got[i].taken) >= 1 /\ got[i].taken[1] = 255) =>
              got[i].isNil /\ got[i].err = Break
        /\ (~got[i].isNil /\ HasTag(got[i].obj)) => Tag(got[i].obj) # 255

\* after an item, a Read has taken the octet 0xFF and returned Break
C10_Witness ==
    /\ Len(got) = 2
    /\ got[2].taken = << 255 >>
    /\ got[2].isNil
    /\ got[2].err = Break

\* the octets of the header of a definite-length array or map: the tag and
\* the count octets after it; 0 for any other first octet or a short header
DefiniteHeader(B) ==
    IF Len(B) = 0 \/ B[1] \notin 128..187 \/ B[1] % 32 > 27 THEN 0
    ELSE IF B[1] % 32 < 24 THEN 1
    ELSE IF Len(B) < 1 + Width(B[1]) THEN 0
    ELSE 1 + Width(B[1])

\* the count a definite-length header advertises
DefiniteCount(B) ==
    IF B[1] % 32 < 24 THEN B[1] % 32 ELSE DecodeUint(SubSeq(B, 2, 1 + Width(B[1])))

\* Reading the item at the head of B meets the octet 0xFF in the place of a
\* child of a definite-length array or map, or of the value of a pair of an
\* indefinite-length map, at any depth, before anything else goes wrong.
RECURSIVE MisplacedBreak(_)
RECURSIVE MisplacedIn(_, _, _, _, _)

\* children from offset k on: left more to come (Saturated-many in a stream);
\* pos is 1 at a key and 2 at a value of an indefinite-length map, 0 elsewhere
MisplacedIn(B, k, left, pos, definite) ==
    IF left = 0 \/ k >= Len(B) THEN FALSE
    ELSE IF B[k + 1] = 255 THEN definite \/ pos = 2
    ELSE IF MisplacedBreak(Rest(B, k)) THEN TRUE
    ELSE IF ItemLen(Rest(B, k)) < 0 THEN FALSE
    ELSE MisplacedIn(B, k + ItemLen(Rest(B, k)), left - 1,
                     IF pos = 0 THEN 0 ELSE 3 - pos,
                     definite)

MisplacedBreak(B) ==
    IF Len(B) = 0 THEN FALSE
    ELSE IF DefiniteHeader(B) > 0
    THEN MisplacedIn(B, DefiniteHeader(B),
                     (IF B[1] >= 160 THEN 2 ELSE 1) * DefiniteCount(B), 0, TRUE)
    ELSE IF B[1] \in {95, 127, 159} THEN MisplacedIn(B, 1, Saturated, 0, FALSE)
    ELSE IF B[1] = 191 THEN MisplacedIn(B, 1, Saturated, 1, FALSE)
    ELSE IF B[1] \in 192..197 \/ B[1] \in 213..215
    THEN Len(B) >= 2 /\ B[2] # 255 /\ MisplacedBreak(Rest(B, 1))
    ELSE IF B[1] \in 216..219 /\ Len(B) > 1 + Width(B[1])
    THEN B[2 + Width(B[1])] # 255 /\ MisplacedBreak(Rest(B, 1 + Width(B[1])))
    ELSE FALSE

\* C11: when Read meets 0xFF in the position of a child of a definite-length
\* array or map, or of the value of a pair of an indefinite-length map, the
\* enclosing Read returns an error and no Object.
C11_MisplacedBreak ==
    (FirstRead /\ MisplacedBreak(input)) =>
        got[1].isNil /\ got[1].err # NoError

\* inside an indefinite-length array, a one-item array has met 0xFF as its item
C11_Witness ==
    /\ FirstRead
    /\ input = << 159, 129, 255 >>
    /\ MisplacedBreak(input)
    /\ got[1].isNil
    /\ got[1].err = ErrorWrapRead(ErrorWrapRead(Break))

\* the indefinite-length containers opened less the breaks met in the first
\* k octets of a source made of 0x00, 0x9F and 0xFF only
RECURSIVE Opened(_, _)
Opened(B, k) ==
    IF k = 0 THEN 0
    ELSE Opened(B, k - 1) + (IF B[k] = 159 THEN 1 ELSE IF B[k] = 255 THEN 0 - 1 ELSE 0)

\* the first k octets of B are one indefinite-length array in which every
\* 0x9F is closed by one 0xFF of its own, the outermost by the last octet
Nested(B, k) ==
    /\ k \in 2..Len(B)
    /\ B[1] = 159
    /\ Opened(B, k) = 0
    /\ \A j \in 1..(k - 1) : Opened(B, j) > 0

Indefinite == {95, 127, 159, 191}

\* C12: in nested indefinite-length containers each 0xFF in child position
\* ends only the innermost open container, and Read succeeds only after
\* each container it opened has met one break of its own.
C12_NestedBreak ==
    (FirstRead /\ Len(input) > 0 /\ input[1] \in Indefinite) =>
        /\ got[1].err = NoError => WellFormed(got[1].taken)
        /\ ItemLen(input) >= 0 =>
              got[1].err = NoError /\ Len(got[1].taken) = ItemLen(input)
        /\ (\A i \in 1..Len(input) : input[i] \in {0, 159, 255}) =>
              /\ got[1].err = NoError => Nested(input, Len(got[1].taken))
              /\ (\E k \in 2..Len(input) : Nested(input, k)) => got[1].err = NoError

\* 9F 9F 00 FF FF is read whole: the first break closes the inner array only
C12_Witness ==
    /\ FirstRead
    /\ input = << 159, 159, 0, 255, 255 >>
    /\ got[1].err = NoError
    /\ got[1].taken = input
    /\ Nested(input, 5)
    /\ ~Nested(input, 4)

\* the children a definite-length header asks for: N items for an array,
\* N pairs of items for a map
DefiniteChildren(B) == (IF B[1] >= 160 THEN 2 ELSE 1) * DefiniteCount(B)

\* C13: a successful Read of a definite-length array of count N has read
\* exactly N children, and of a map exactly 2N, whether N is in the tag or
\* in a prefix of 1, 2, 4 or 8 octets: never fewer, never more.
C13_DefiniteCount ==
    (FirstRead /\ DefiniteHeader(input) > 0) =>
        /\ got[1].err = NoError =>
              ItemsLen(got[1].taken, DefiniteHeader(input), DefiniteChildren(input))
                  = Len(got[1].taken)
        /\ ItemLen(input) >= 0 =>
              got[1].err = NoError /\ Len(got[1].taken) = ItemLen(input)
        /\ ItemLen(input) < 0 => got[1].err # NoError

\* B8 01 61 61 00: the one-octet count 1 of a map makes Read take two children
C13_Witness ==
    /\ FirstRead
    /\ input = << 184, 1, 97, 97, 0 >>
    /\ DefiniteHeader(input) = 2
    /\ DefiniteChildren(input) = 2
    /\ got[1].err = NoError
    /\ got[1].taken = input

\* C14: Encode returns an Object without failing for every kind of value:
\* the integers of every width and sign, octet and text strings, sequences,
\* mappings, booleans, null, and any other value.
C14_EncodeTotal ==
    (value # NoValue /\ value \in Values) => pc # "panicked"

\* C15: Encode never returns an empty Object, whatever value it is given,
\* the empty text and octet strings and the containers that hold them
\* included.
C15_EncodeNotEmpty ==
    pc = "encoded" => Len(code) > 0

\* the shortest head of major type mt for the 64-bit number n: the number
\* in the tag up to 23, then 0x18, 0x19, 0x1A, 0x1B with 1, 2, 4, 8 octets
ShortestHead(mt, n) ==
    IF LeqOctets(n, U64(23)) THEN << 32 * mt + n[8] >>
    ELSE IF SubSeq(n, 1, 7) = SubSeq(U64(0), 1, 7) THEN << 32 * mt + 24, n[8] >>
    ELSE IF SubSeq(n, 1, 6) = SubSeq(U64(0), 1, 6) THEN << 32 * mt + 25 >> \o SubSeq(n, 7, 8)
    ELSE IF SubSeq(n, 1, 4) = SubSeq(U64(0), 1, 4) THEN << 32 * mt + 26 >> \o SubSeq(n, 5, 8)
    ELSE << 32 * mt + 27 >> \o n

\* the shortest form of an integer: major type 0 for v >= 0, major type 1
\* with the number -1 - v for v < 0
ShortestInteger(v) ==
    IF Numeric(v).neg
    THEN ShortestHead(MajorSint, [i \in 1..8 |-> 255 - Numeric(v).octets[i]])
    ELSE ShortestHead(MajorUint, Numeric(v).octets)

\* the major type and the length that the head of a string or container holds
Lengthy(v) ==
    CASE v.kind = "bytes" -> [major |-> MajorBlob, length |-> Len(v.octets)]
      [] v.kind = "string" -> [major |-> MajorText, length |-> Len(v.octets)]
      [] v.kind = "array" -> [major |-> MajorArray, length |-> Len(v.items)]
      [] v.kind = "map" -> [major |-> MajorMap, length |-> Len(v.keys)]

StartsWith(B, head) == Len(B) >= Len(head) /\ SubSeq(B, 1, Len(head)) = head

C16_Integers ==
    (pc = "encoded" /\ value.kind \in IntegerKinds) => code = ShortestInteger(value)

C16_Lengths ==
    (pc = "encoded" /\ value.kind \in {"bytes", "string", "array", "map"}) =>
        StartsWith(code, ShortestHead(Lengthy(value).major, U64(Lengthy(value).length)))

\* C16: every integer Encode accepts is encoded in its shortest form,
\* whatever its declared width, and the length of every string, array and
\* map is encoded in the shortest width.
C16_ShortestForm == C16_Integers /\ C16_Lengths

\* C17: Encode(true) is the one octet F5 and Encode(false) the one octet
\* F4, so that Decode(Encode(b)) = b for both booleans.
C17_Booleans ==
    (value.kind = "bool" /\ pc \in {"encoded", "decoded"}) =>
        /\ code = << IF value.octets = << 1 >> THEN 245 ELSE 244 >>
        /\ pc = "decoded" => decoded = value

\* every Object the caller obtained still has the octets it was obtained with
Unchanged == \A i \in 1..Len(held) : store[held[i].at] = held[i].octets

\* no octet returned by Refine or Concatenate lies in an array of an operand
Fresh ==
    \A i \in 1..Len(held) :
        (held[i].from # {} /\ held[i].octets # << >>) => held[i].at \notin held[i].from

\* C18: after any sequence of Define, Refine and Concatenate no Object
\* obtained earlier has had an octet changed, and Refine and Concatenate
\* return a fresh Object that shares no storage with an operand, also when
\* an operand is empty.
C18_Immutable == Unchanged /\ Fresh

\* C19: whenever Read returns an error, at any depth and after any number
\* of octets and children consumed, it returns no Object (nil), and every
\* Object an earlier successful Read returned keeps exactly its octets.
C19_ErrorNoObject ==
    [][ /\ Len(got') >= Len(got)
        /\ \A i \in 1..Len(got) : got'[i] = got[i]
        /\ \A i \in 1..Len(got') :
              got'[i].err # NoError => (got'[i].isNil /\ got'[i].obj = << >>) ]_vars

\* after the item 00 was read, Read of 9F 00 fails at the end of the source
\* with one child consumed; the Object of the first Read is still 00
C19_Witness ==
    /\ input = << 0, 159, 0 >>
    /\ Len(got) = 2
    /\ got[1].err = NoError
    /\ got[1].obj = << 0 >>
    /\ got[2].err # NoError
    /\ got[2].isNil
    /\ got[2].taken = << 159, 0 >>

\* the chunks of an indefinite-length string from offset k of B up to the
\* closing 0xFF at the end of B: whether they are all definite-length strings
\* of the major type whose tags start at base, and their payloads in order
RECURSIVE Chunks(_, _, _)
Chunks(B, k, base) ==
    IF k >= Len(B) THEN [ok |-> FALSE, octets |-> << >>]
    ELSE IF B[k + 1] = 255 THEN [ok |-> k + 1 = Len(B), octets |-> << >>]
    ELSE IF B[k + 1] \notin base..(base + 27) THEN [ok |-> FALSE, octets |-> << >>]
    ELSE LET h == IF B[k + 1] - base < 24 THEN 1 ELSE 1 + Width(B[k + 1])
         IN  IF Len(B) < k + h THEN [ok |-> FALSE, octets |-> << >>]
             ELSE LET n == IF h = 1 THEN B[k + 1] - base
                                    ELSE DecodeUint(SubSeq(B, k + 2, k + h))
                  IN  IF Len(B) < k + h + n THEN [ok |-> FALSE, octets |-> << >>]
                      ELSE [ok |-> Chunks(B, k + h + n, base).ok,
                            octets |-> SubSeq(B, k + h + 1, k + h + n)
                                           \o Chunks(B, k + h + n, base).octets]

\* B is 0x5F or 0x7F, definite-length chunks of the same major type, 0xFF
ChunkedString(B) ==
    /\ Len(B) >= 2
    /\ B[1] \in {95, 127}
    /\ Chunks(B, 1, B[1] - 31).ok

\* C20: of an indefinite-length byte string Read returns an Object holding
\* every input octet, the closing 0xFF included, and Decode of it yields the
\* chunk payloads concatenated in order; for an indefinite-length text
\* string Decode yields that concatenation as a text string.
C20_ChunkedString ==
    (FirstRead /\ Len(got) = 1 /\ ChunkedString(input)) =>
        /\ got[1].err = NoError
        /\ got[1].obj = input
        /\ pc = "decoded" =>
              decoded = Scalar(IF input[1] = 95 THEN "bytes" ELSE "string",
                               Chunks(input, 1, input[1] - 31).octets)

\* the octets of a big-endian number without its leading zero octets
RECURSIVE Magnitude(_)
Magnitude(B) == IF Len(B) > 0 /\ Head(B) = 0 THEN Magnitude(Tail(B)) ELSE B

\* B is the tag 0xC2 and one definite-length byte string
Bignum(B) ==
    /\ Len(B) >= 2
    /\ B[1] = 194
    /\ B[2] \in 64..91
    /\ ItemLen(Rest(B, 1)) = Len(B) - 1

\* the payload of the byte string of a bignum, after the string's header
BignumPayload(B) ==
    SubSeq(B, 2 + (IF B[2] < 88 THEN 1 ELSE 1 + Width(B[2])), Len(B))

\* C21: of the tag 0xC2 and one definite-length byte string Read returns
\* the whole item, and Decode yields the unsigned integer whose big-endian
\* octets are the payload of the byte string, without the string's header
\* (C2 49 01 00 00 00 00 00 00 00 00 decodes to 2^64).
C21_Bignum ==
    (FirstRead /\ Len(got) = 1 /\ Bignum(input)) =>
        /\ got[1].err = NoError
        /\ got[1].obj = input
        /\ pc = "decoded" =>
              /\ decoded.kind = "bigint"
              /\ Magnitude(decoded.octets) = Magnitude(BignumPayload(input))

\* the kinds of the unsigned integers Decode can return
UnsignedKinds == {"uint8", "uint16", "uint32", "uint64", "uint", "bigint"}

\* B is a tag 0x18, 0x19, 0x1A or 0x1B followed by exactly 1, 2, 4 or 8 octets
WideUint(B) ==
    /\ Len(B) >= 1
    /\ B[1] \in 24..27
    /\ Len(B) = 1 + Width(B[1])

\* C23: of the Object that Read returns for a tag 0x18, 0x19, 0x1A or 0x1B
\* and its 1, 2, 4 or 8 octets, Decode returns without failing the unsigned
\* integer whose big-endian octets are the octets after the tag.
C23_WideUint ==
    (FirstRead /\ Len(got) = 1 /\ WideUint(input) /\ got[1].obj = input
         /\ pc = "decoded") =>
        /\ decoded.kind \in UnsignedKinds
        /\ Magnitude(decoded.octets) = Magnitude(Rest(input, 1))

\* the Object handed to Decode: the one Encode returned, or the one the last
\* Read returned
Subject == IF value = NoValue THEN Last(got).obj ELSE code

\* B is a byte or text string with a one-octet length prefix N and N octets
Prefixed(B) ==
    /\ Len(B) >= 2
    /\ B[1] \in {88, 120}
    /\ Len(B) = 2 + B[2]

\* C24: of a byte or text string Object with a one-octet length prefix N
\* (tags 0x58, 0x78), for every N in 0..255, Decode returns exactly the N
\* octets after the prefix; the index arithmetic does not wrap at 8 bits.
C24_PrefixedString ==
    (pc = "decoded" /\ Prefixed(Subject)) =>
        decoded = Scalar(IF Subject[1] = 88 THEN "bytes" ELSE "string",
                         Rest(Subject, 2))

\* C22: a byte sequence or text string returned by Decode owns its
\* contents: it shares no storage with the source Object, so changing an
\* octet of the decoded value leaves the Object unchanged.
C22_DecodedOwns ==
    \A k \in 1..Len(views) :
        /\ views[k].value.octets # << >> => views[k].at # held[views[k].of].at
        /\ views[k].kept

\* Decode walks this container Object child by child: an array or a map
\* with its count in the tag or in one octet, or of indefinite length
Walks(this) ==
    /\ HasTag(this)
    /\ Tag(this) \in (128..152) \cup {159} \cup (160..184) \cup {191}
    /\ Tag(this) \in {152, 184} => Len(this) >= 2

\* the octets before the first child, and the children the header counts
WalkHeader(this) == IF Tag(this) \in {152, 184} THEN 2 ELSE 1

WalkCount(this) ==
    CASE Tag(this) \in 128..151 -> Tag(this) - 128
      [] Tag(this) = 152 -> this[2]
      [] Tag(this) \in 160..183 -> 2 * (Tag(this) - 160)
      [] Tag(this) = 184 -> 2 * this[2]
      [] OTHER -> Saturated

\* the cursor of Decode: b = bytes.NewBuffer(this[k:]); o, e = o.Read(b) for
\* each child, up to left children or the first error.  children is the
\* number of children read, octets the advance of the cursor over them.
RECURSIVE Walk(_, _)
Walk(b, left) ==
    IF left = 0 THEN [children |-> 0, octets |-> 0]
    ELSE LET o == Read(b)
         IN  IF o.err # NoError THEN [children |-> 0, octets |-> 0]
             ELSE [children |-> 1 + Walk(o.r, left - 1).children,
                   octets |-> (Len(b.buf) - Len(o.r.buf)) + Walk(o.r, left - 1).octets]

Walked(this) ==
    Walk(NewBuffer(Slice(this, WalkHeader(this), Len(this))), WalkCount(this))

\* C25: while Decode walks a container Object made by Encode or by Read,
\* the cursor advances by each child's encoded length, and the length of
\* the header plus the lengths of the children is the length of the
\* Object, also when children are integers or indefinite-length items.
C25_Cursor ==
    (pc = "decoded" /\ Walks(Subject)) =>
        /\ WalkHeader(Subject) + Walked(Subject).octets = Len(Subject)
        /\ WalkCount(Subject) # Saturated =>
              Walked(Subject).children = WalkCount(Subject)

\* the tags of the wrappers of one child: tagged items and expected
\* conversions
Wrappers == (192..197) \cup (213..219)

\* the offset of the first child of the item at the head of B, 0 when the
\* item has no child or its header is cut short
FirstChildAt(B) ==
    IF Len(B) = 0 THEN 0
    ELSE IF B[1] \in Indefinite \/ B[1] \in (192..197) \cup (213..215) THEN 1
    ELSE IF B[1] \in 216..219
    THEN (IF Len(B) >= 1 + Width(B[1]) THEN 1 + Width(B[1]) ELSE 0)
    ELSE IF DefiniteHeader(B) > 0 /\ DefiniteCount(B) > 0 THEN DefiniteHeader(B)
    ELSE 0

\* the first child read of the item at the head of B meets 0xFF
BreaksAtChild(B) ==
    /\ FirstChildAt(B) > 0
    /\ Len(B) > FirstChildAt(B)
    /\ B[FirstChildAt(B) + 1] = 255

\* C26 as stated: a Break returned by a child read ends the item with
\* success in exactly these places: the loops of 0x5F, 0x7F, 0x9F and 0xBF,
\* and the child read of a tagged or expected-conversion wrapper.
C26_BreakPlaces ==
    (FirstRead /\ BreaksAtChild(input)) =>
        (got[1].err = NoError <=> input[1] \in Indefinite \cup Wrappers)

\* C26 amended: a Break returned by a child read ends the item with success
\* in exactly the loops of 0x5F, 0x7F, 0x9F and 0xBF; the child read of a
\* wrapper, like every other child read, returns it wrapped as an error.
C26_BreakLoops ==
    (FirstRead /\ BreaksAtChild(input)) =>
        /\ got[1].err = NoError <=> input[1] \in Indefinite
        /\ input[1] \notin Indefinite =>
              got[1].isNil /\ got[1].err = ErrorWrapRead(Break)

\* C0 FF: the child read of the wrapper returns Break, and Read fails
C26_Witness ==
    /\ FirstRead
    /\ input = << 192, 255 >>
    /\ BreaksAtChild(input)
    /\ got[1].isNil
    /\ got[1].err = ErrorWrapRead(Break)

\* the octets the calls of Read recorded in q took from the source, in order
RECURSIVE Consumed(_)
Consumed(q) == IF Len(q) = 0 THEN << >> ELSE q[1].taken \o Consumed(Tail(q))

\* C27: with several items back to back in the source, each successful
\* Read consumes exactly the octets of the next item of the dispatch table,
\* the closing 0xFF of an indefinite-length item included, and no octet
\* after it: after k successful Reads the source stands at the first octet
\* of item k+1.
C27_BackToBack ==
    FirstRead =>
        /\ Consumed(got) \o wire.buf = input
        /\ \A i \in 1..Len(got) :
              got[i].err = NoError =>
                  /\ WellFormed(got[i].taken)
                  /\ ItemLen(Rest(input, Len(Consumed(SubSeq(got, 1, i - 1)))))
                         = Len(got[i].taken)

\* 9F FF 00: the first Read takes the array with its break, the second the 00
C27_Witness ==
    /\ FirstRead
    /\ input = << 159, 255, 0 >>
    /\ Len(got) = 2
    /\ got[1].err = NoError /\ got[1].taken = << 159, 255 >>
    /\ got[2].err = NoError /\ got[2].taken = << 0 >>
    /\ wire.buf = << >>

\* the tags that Read frames and Decode has no decoder for
Undecoded == {196, 197} \cup (198..219) \cup (224..243) \cup {249}

\* C28: Decode of an Object whose framing Read accepts but for which there
\* is no decoder (tags 0xC4, 0xC5, 0xC6-0xDB, 0xE0-0xF3, 0xF9) reports an
\* outcome that the caller can tell apart from the value Decode returns for
\* null and undefined (0xF6, 0xF7).
C28_UnsupportedTag ==
    (pc = "decoded" /\ HasTag(Subject) /\ Tag(Subject) \in Undecoded) =>
        decoded # Decode(<< 246 >>) /\ decoded # Decode(<< 247 >>)

\* what Read returns on the source as it stood before call i, made on an
\* empty Object
Afresh(i) ==
    Read([wire EXCEPT !.buf = Rest(input, Len(Consumed(SubSeq(got, 1, i - 1))))])

C30_Terminates ==
    FirstRead =>
        \A i \in 1..Len(got) :
            /\ ~Panics(got[i].err)
            /\ got[i].isNil <=> got[i].err # NoError
            /\ got[i].err = NoError => Len(got[i].taken) >= 1
            /\ (wire.kind = "quiet" /\ got[i].taken = << >>) => got[i].err = ErrorMissingTag

=============================================================================
